---------------------------- MODULE Spec2Model ----------------------------
(***************************************************************************)
(* A state-machine model of md5.py: the module's top-level statements and  *)
(* the function md5(fname), one action per statement, with the outcomes    *)
(* of the operating system (open succeeds or fails, a read returns bytes   *)
(* or fails) as nondeterministic choices.                                  *)
(*                                                                         *)
(* Python indexes sys.argv from 0 and TLA+ sequences from 1: Argv(i) is    *)
(* sys.argv[i].  The first element is the script's name.                   *)
(***************************************************************************)
EXTENDS Integers, Sequences, FiniteSets, TLC

\* f.read(4096): the size argument of every read.
READ_SIZE == 4096

\* Bounds of the model.
MaxArgs == 2        \* at most this many positional arguments
MaxChunks == 1      \* files hold up to MaxChunks full chunks, plus or minus a byte
MaxRead == 2        \* the alternative read sizes 1..MaxRead of SpecAnySize

VARIABLES
    argv,           \* sys.argv
    fs,             \* the file system: path -> [kind, len]
    size,           \* the size argument of f.read, fixed for the run
    pc,             \* the statement about to run
    fname,          \* md5's parameter
    opened,         \* the path the file object f was opened on, "none" before
    openHandles,    \* the number of file handles open
    fdata,          \* the bytes of the file f reads (<<>> before open)
    pos,            \* f's stream position
    chunk,          \* the loop variable chunk (<<>> before the first read)
    hash_md5,       \* the accumulator: the byte stream it has absorbed
    result,         \* md5's return value (<<>> before it returns)
    exc,            \* the exception propagating, "none" if none
    stdout,         \* lines written to standard output
    stderr,         \* lines written to standard error
    status,         \* <<>> while running, <<code>> once the process has exited
    opens,          \* history: calls of open
    reads,          \* history: calls of f.read that returned
    nonempty,       \* history: calls of f.read that returned at least one byte
    updates,        \* history: calls of hash_md5.update
    finals          \* history: calls of hash_md5.hexdigest

vars == <<argv, fs, size, pc, fname, opened, fdata, openHandles, pos, chunk,
          hash_md5, result, exc, stdout, stderr, status, opens, reads,
          nonempty, updates, finals>>

\* Groups of variables that steps leave alone together.
envVars == <<argv, fs, size>>
fileVars == <<opened, fdata>>
outVars == <<stdout, stderr, status>>

---------------------------------------------------------------------------
(* The environment. *)

Paths == {"a", "b"}

Min(a, b) == IF a <= b THEN a ELSE b

\* sys.argv[i]
Argv(i) == argv[i + 1]

\* The command lines: the script name and up to MaxArgs positional arguments.
ArgLists ==
    {<<"md5.py">> \o a : a \in UNION {[1..k -> Paths] : k \in 0..MaxArgs}}

\* File sizes around the chunk boundaries of a read size n: empty, and
\* k chunks minus a byte, exactly, plus a byte.
FileSizes(n) ==
    {0} \cup {k * n + d : k \in 1..MaxChunks, d \in {-1, 0, 1}}

\* What open(path, "rb") can find at a path.
Entries(n) ==
    {[kind |-> k, len |-> 0] : k \in {"missing", "dir", "denied"}}
    \cup {[kind |-> "file", len |-> l] : l \in FileSizes(n)}

\* The bytes of the file at path p.  The program never looks at a byte's
\* value; the contents are distinct per path and change from byte to byte,
\* so that a gap, a repeat or a swap of bytes, or the wrong file, shows.
Salt(p) == IF p = "a" THEN 0 ELSE 101
Content(p) == [i \in 1..fs[p].len |-> (Salt(p) + 7 * i) % 256]

\* hashlib's MD5 of a byte stream, rendered by hexdigest(): a function of
\* the stream absorbed, kept symbolic.
Hexdigest(stream) == [md5hex |-> stream]

\* ReadBytes as a read that hands out full chunks only: the bytes after
\* the last full chunk are dropped.
ReadBytesFullOnly(data, p, n) ==
    IF p + n <= Len(data) THEN SubSeq(data, p + 1, p + n) ELSE <<>>

\* ReadBytes as f.read() without a size: everything up to the end.
ReadBytesAll(data, p, n) == SubSeq(data, p + 1, Len(data))

\* f.read(n) at position p of data: up to n bytes, fewer only at the end,
\* none at end of stream.
ReadBytes(data, p, n) == SubSeq(data, p + 1, Min(p + n, Len(data)))

\* The exception open() raises for what it finds.
OpenError(kind) ==
    CASE kind = "missing" -> "FileNotFoundError"
      [] kind = "dir" -> "IsADirectoryError"
      [] OTHER -> "PermissionError"

---------------------------------------------------------------------------
(* The initial states. *)

InitRun ==
    /\ opened = "none"
    /\ fdata = <<>>
    /\ openHandles = 0
    /\ pos = 0
    /\ chunk = <<>>
    /\ hash_md5 = <<>>
    /\ result = <<>>
    /\ exc = "none"
    /\ stdout = <<>>
    /\ stderr = <<>>
    /\ status = <<>>
    /\ opens = 0
    /\ reads = 0
    /\ nonempty = 0
    /\ updates = 0
    /\ finals = 0

\* python md5.py ARGS...: the interpreter is about to run line 10.
Init ==
    /\ argv \in ArgLists
    /\ size = READ_SIZE
    /\ fs \in [Paths -> Entries(size)]
    /\ pc = "argcheck"
    /\ fname = "none"
    /\ InitRun

---------------------------------------------------------------------------
(* Module top level, lines 10-13. *)

\* Lines 10-11: if len(sys.argv) != 1: exit.  The body is the bare name
\* exit, an expression statement that calls nothing: with or without
\* arguments, control falls through to line 13.
ArgCheck ==
    /\ pc = "argcheck"
    /\ pc' = "main"
    /\ UNCHANGED <<envVars, outVars, fname, fileVars, openHandles, pos, chunk,
                   hash_md5, result, exc, opens, reads, nonempty, updates,
                   finals>>

\* Line 13, the argument of the call: sys.argv[1] exists, md5 is entered.
MainCall ==
    /\ pc = "main"
    /\ Len(argv) >= 2
    /\ fname' = Argv(1)
    /\ pc' = "md5_new"
    /\ UNCHANGED <<envVars, outVars, fileVars, openHandles, pos, chunk,
                   hash_md5, result, exc, opens, reads, nonempty, updates,
                   finals>>

\* Line 13, the argument of the call: sys.argv[1] on a one-element list.
MainIndexError ==
    /\ pc = "main"
    /\ Len(argv) < 2
    /\ exc' = "IndexError"
    /\ pc' = "raised"
    /\ UNCHANGED <<envVars, outVars, fname, fileVars, openHandles, pos, chunk,
                   hash_md5, result, opens, reads, nonempty, updates, finals>>

\* Line 13, print(...) of md5's return value: one line on standard output.
PrintDigest ==
    /\ pc = "ret"
    /\ stdout' = Append(stdout, result)
    /\ pc' = "printed"
    /\ UNCHANGED <<envVars, stderr, status, fname, fileVars, openHandles, pos,
                   chunk, hash_md5, result, exc, opens, reads, nonempty,
                   updates, finals>>

\* The end of the script: the interpreter exits with status 0.
ScriptEnd ==
    /\ pc = "printed"
    /\ status' = <<0>>
    /\ pc' = "done"
    /\ UNCHANGED <<envVars, stdout, stderr, fname, fileVars, openHandles, pos,
                   chunk, hash_md5, result, exc, opens, reads, nonempty,
                   updates, finals>>

\* An exception no statement catches (the script has no try): the
\* interpreter writes the traceback to standard error and exits with 1.
Uncaught ==
    /\ pc = "raised"
    /\ stderr' = stderr \o <<"Traceback (most recent call last):", exc>>
    /\ status' = <<1>>
    /\ pc' = "crash"
    /\ UNCHANGED <<envVars, stdout, fname, fileVars, openHandles, pos, chunk,
                   hash_md5, result, exc, opens, reads, nonempty, updates,
                   finals>>

---------------------------------------------------------------------------
(* md5(fname), lines 3-8. *)

\* Line 4: hash_md5 = hashlib.md5()
HashNew ==
    /\ pc = "md5_new"
    /\ hash_md5' = <<>>
    /\ pc' = "open"
    /\ UNCHANGED <<envVars, outVars, fname, fileVars, openHandles, pos, chunk,
                   result, exc, opens, reads, nonempty, updates, finals>>

\* Line 5: open(sys.argv[1], "rb") finds a file: f is the open handle.
\* The path is sys.argv[1], not the parameter fname.
OpenOk ==
    /\ pc = "open"
    /\ Len(argv) >= 2
    /\ fs[Argv(1)].kind = "file"
    /\ opened' = Argv(1)
    /\ fdata' = Content(Argv(1))
    /\ openHandles' = openHandles + 1
    /\ pos' = 0
    /\ opens' = opens + 1
    /\ pc' = "read"
    /\ UNCHANGED <<envVars, outVars, fname, chunk, hash_md5, result, exc,
                   reads, nonempty, updates, finals>>

\* OpenFail with one more attempt before the exception is let through.
OpenFailRetry ==
    /\ pc = "open"
    /\ Len(argv) >= 2
    /\ fs[Argv(1)].kind # "file"
    /\ opens' = opens + 1
    /\ IF opens = 0
       THEN UNCHANGED <<exc, pc>>
       ELSE /\ exc' = OpenError(fs[Argv(1)].kind)
            /\ pc' = "raised"
    /\ UNCHANGED <<envVars, outVars, fname, fileVars, openHandles, pos, chunk,
                   hash_md5, result, reads, nonempty, updates, finals>>

\* Line 5: open fails (no such file, a directory, no permission): the
\* exception leaves md5, no handle was created.
OpenFail ==
    /\ pc = "open"
    /\ Len(argv) >= 2
    /\ fs[Argv(1)].kind # "file"
    /\ opens' = opens + 1
    /\ exc' = OpenError(fs[Argv(1)].kind)
    /\ pc' = "raised"
    /\ UNCHANGED <<envVars, outVars, fname, fileVars, openHandles, pos, chunk,
                   hash_md5, result, reads, nonempty, updates, finals>>

\* Line 5, when md5 is called in a process without arguments: sys.argv[1]
\* raises before open is called.
OpenIndexError ==
    /\ pc = "open"
    /\ Len(argv) < 2
    /\ exc' = "IndexError"
    /\ pc' = "raised"
    /\ UNCHANGED <<envVars, outVars, fname, fileVars, openHandles, pos, chunk,
                   hash_md5, result, opens, reads, nonempty, updates, finals>>

\* Read with the sentinel "" (a str) in place of b"": no chunk ever equals
\* it, the empty chunk is bound and fed like any other and the loop goes on.
ReadStrSentinel ==
    /\ pc = "read"
    /\ LET c == ReadBytes(fdata, pos, size) IN
        /\ chunk' = c
        /\ pos' = pos + Len(c)
        /\ reads' = reads + 1
        /\ nonempty' = IF c # <<>> THEN nonempty + 1 ELSE nonempty
        /\ pc' = "update"
    /\ UNCHANGED <<envVars, outVars, fname, fileVars, openHandles, hash_md5,
                   result, exc, opens, updates, finals>>

\* Line 6: the next item of iter(lambda: f.read(4096), b""): f.read returns
\* a chunk, which is bound to chunk; the sentinel b"" ends the loop and is
\* not bound.
Read ==
    /\ pc = "read"
    /\ LET c == ReadBytes(fdata, pos, size) IN
        /\ chunk' = IF c = <<>> THEN chunk ELSE c
        /\ pos' = pos + Len(c)
        /\ reads' = reads + 1
        /\ nonempty' = IF c # <<>> THEN nonempty + 1 ELSE nonempty
        /\ pc' = IF c = <<>> THEN "close" ELSE "update"
    /\ UNCHANGED <<envVars, outVars, fname, fileVars, openHandles, hash_md5,
                   result, exc, opens, updates, finals>>

\* ReadFail with the error caught inside the loop and the loop left: md5
\* goes on to close f and to return the digest of what was fed so far.
ReadFailPartial ==
    /\ pc = "read"
    /\ pc' = "close"
    /\ UNCHANGED <<envVars, outVars, fname, fileVars, openHandles, pos, chunk,
                   hash_md5, result, exc, opens, reads, nonempty, updates,
                   finals>>

\* ReadFail without the with statement: the exception leaves md5 and f
\* stays open.
ReadFailLeak ==
    /\ pc = "read"
    /\ exc' = "OSError"
    /\ pc' = "raised"
    /\ UNCHANGED <<envVars, outVars, fname, fileVars, openHandles, pos, chunk,
                   hash_md5, result, opens, reads, nonempty, updates, finals>>

\* Line 6: f.read raises OSError.  The with statement closes f as the
\* exception leaves the block.
ReadFail ==
    /\ pc = "read"
    /\ exc' = "OSError"
    /\ openHandles' = openHandles - 1
    /\ pc' = "raised"
    /\ UNCHANGED <<envVars, outVars, fname, fileVars, pos, chunk, hash_md5,
                   result, opens, reads, nonempty, updates, finals>>

\* Update with line 7 dedented out of the loop: only the last chunk of the
\* file is fed.
UpdateLastOnly ==
    /\ pc = "update"
    /\ IF pos = fs[opened].len
       THEN /\ hash_md5' = hash_md5 \o chunk
            /\ updates' = updates + 1
       ELSE UNCHANGED <<hash_md5, updates>>
    /\ pc' = "read"
    /\ UNCHANGED <<envVars, outVars, fname, fileVars, openHandles, pos, chunk,
                   result, exc, opens, reads, nonempty, finals>>

\* Line 7: hash_md5.update(chunk)
Update ==
    /\ pc = "update"
    /\ hash_md5' = hash_md5 \o chunk
    /\ updates' = updates + 1
    /\ pc' = "read"
    /\ UNCHANGED <<envVars, outVars, fname, fileVars, openHandles, pos, chunk,
                   result, exc, opens, reads, nonempty, finals>>

\* Lines 5-7: the loop has ended, the with block is left, f is closed.
Close ==
    /\ pc = "close"
    /\ openHandles' = openHandles - 1
    /\ pc' = "hexdigest"
    /\ UNCHANGED <<envVars, outVars, fname, fileVars, pos, chunk, hash_md5,
                   result, exc, opens, reads, nonempty, updates, finals>>

\* Line 8: return hash_md5.hexdigest()
Return ==
    /\ pc = "hexdigest"
    /\ result' = Hexdigest(hash_md5)
    /\ finals' = finals + 1
    /\ pc' = "ret"
    /\ UNCHANGED <<envVars, outVars, fname, fileVars, openHandles, pos, chunk,
                   hash_md5, exc, opens, reads, nonempty, updates>>

---------------------------------------------------------------------------
(* The specifications. *)

\* A run of the script.  OpenIndexError is not a step of it: line 13 has
\* raised on a missing sys.argv[1] before md5 is entered.
Next ==
    \/ ArgCheck
    \/ MainCall
    \/ MainIndexError
    \/ HashNew
    \/ OpenOk
    \/ OpenFail
    \/ Read
    \/ ReadFail
    \/ Update
    \/ Close
    \/ Return
    \/ PrintDigest
    \/ ScriptEnd
    \/ Uncaught

Spec == Init /\ [][Next]_vars

\* The script is a single sequential process: the interpreter always takes
\* the next statement while there is one.
FairSpec == Spec /\ WF_vars(Next)

\* The read sizes of SpecAnySize: the program's own and the small ones.
ReadSizes == 1..MaxRead \cup {READ_SIZE}

\* A run of the script with line 6 reading size bytes at a time, for any
\* fixed size: the loop of lines 6-7 as a function of its read size.
InitAnySize ==
    /\ argv \in ArgLists
    /\ size \in ReadSizes
    /\ fs \in [Paths -> Entries(size)]
    /\ pc = "argcheck"
    /\ fname = "none"
    /\ InitRun

SpecAnySize == InitAnySize /\ [][Next]_vars

\* A call md5(fname) from any caller: the parameter is any path, whatever
\* sys.argv holds.  The run ends when md5 returns or raises.
InitCall ==
    /\ argv \in ArgLists
    /\ size = READ_SIZE
    /\ fs \in [Paths -> Entries(size)]
    /\ pc = "md5_new"
    /\ fname \in Paths
    /\ InitRun

NextCall ==
    \/ HashNew
    \/ OpenOk
    \/ OpenFail
    \/ OpenIndexError
    \/ Read
    \/ ReadFail
    \/ Update
    \/ Close
    \/ Return

SpecCall == InitCall /\ [][NextCall]_vars

---------------------------------------------------------------------------
(* Properties. *)

\* The run is over: the process has exited.
Final == pc \in {"done", "crash"}

\* md5 has left the with block without an exception.
AfterLoop == pc \in {"hexdigest", "ret", "printed", "done"}

Ceil(a, b) == (a + b - 1) \div b

\* C1: every run ends in one of two outcomes: exactly one line on standard
\* output, the digest of the whole file, with exit status 0; or nothing on
\* standard output with a non-zero exit status.  Standard output never
\* holds a second line or the digest of a part of the file, a status of 0
\* comes only after the digest was printed, and a run stops nowhere else.
OneOutcome ==
    /\ Len(stdout) <= 1
    /\ \A i \in 1..Len(stdout) : stdout[i] = Hexdigest(Content(Argv(1)))
    /\ Final <=> status # <<>>
    /\ status = <<0>> => (pc = "done" /\ Len(stdout) = 1)
    /\ pc = "done" => status = <<0>>
    /\ pc = "crash" => (status # <<0>> /\ stdout = <<>>)
    /\ ~Final => ENABLED Next

\* C1's case: a read failed in the middle of the stream, after a chunk
\* had been fed, and the run has ended.
OneOutcomeWitness ==
    /\ pc = "crash"
    /\ exc = "OSError"
    /\ updates >= 1

\* C2: with no path argument the run ends with a non-zero status and a
\* usage message on standard error, not with an unhandled exception.
MissingArgumentIsUsageError ==
    (Len(argv) = 1 /\ Final) =>
        /\ status # <<0>>
        /\ exc = "none"
        /\ stderr # <<>>

\* C3: with more than one positional argument the run opens no file, prints
\* no digest and ends with a non-zero status.
ExtraArgumentsAreUsageError ==
    Len(argv) > 2 =>
        /\ opens = 0
        /\ finals = 0
        /\ stdout = <<>>
        /\ status # <<0>>

\* C4: when the path argument names no file that can be opened (missing, a
\* directory, no permission), open is attempted once and never again, the
\* accumulator is never finalized, nothing is written to standard output
\* and the process exits with a non-zero status.
OpenFailureIsFatal ==
    (Len(argv) = 2 /\ fs[Argv(1)].kind # "file") =>
        /\ opens <= 1
        /\ opens = 1 => pc \in {"raised", "crash"}
        /\ finals = 0
        /\ stdout = <<>>
        /\ status # <<0>>
        /\ Final => (opens = 1 /\ pc = "crash")

\* C4's case: the path names a missing file and the run has ended.
OpenFailureWitness ==
    /\ Len(argv) = 2
    /\ fs[Argv(1)].kind = "missing"
    /\ exc = "FileNotFoundError"
    /\ pc = "crash"

\* C5: at most one file handle is open at any point, it is open only
\* inside the with block, and none is open once md5 has returned or raised.
HandleClosedOnEveryPath ==
    /\ openHandles \in {0, 1}
    /\ openHandles = 1 <=> pc \in {"read", "update", "close"}
    /\ (AfterLoop \/ pc \in {"raised", "crash"}) => openHandles = 0

\* C5's case: a read failed after chunks had been read, and md5 has raised.
HandleClosedWitness ==
    /\ pc = "raised"
    /\ exc = "OSError"
    /\ nonempty >= 2
    /\ openHandles = 0

\* C6: for every read size, the stream fed to the accumulator is the prefix
\* of the file read so far (less the chunk read and not fed yet), and once
\* the loop has ended it is the whole file, so that the digest returned is
\* the digest of the file whatever the read size.
StreamIsFilePrefix ==
    opened # "none" =>
        /\ pos <= Len(fdata)
        /\ (IF pc = "update" THEN hash_md5 \o chunk ELSE hash_md5)
               = SubSeq(fdata, 1, pos)
        /\ (pc = "close" \/ AfterLoop) => hash_md5 = Content(opened)
        /\ pc \in {"ret", "printed", "done"} =>
               result = Hexdigest(Content(opened))

\* C6's case: a read size other than the program's, a file of one chunk
\* and a byte, read to its end in two chunks.
StreamWitness ==
    /\ size # READ_SIZE
    /\ pc = "ret"
    /\ nonempty = 2
    /\ Len(hash_md5) = size + 1

\* C7: md5(p) opens and digests the file at p, whatever sys.argv holds.
DigestsNamedFile ==
    fs[fname].kind = "file" =>
        /\ opened \in {"none", fname}
        /\ pc = "ret" => result = Hexdigest(Content(fname))

\* One empty read at most, and the counts of a loop that ran to its end.
ReadCounts ==
    /\ reads - nonempty \in {0, 1}
    /\ (pc = "close" \/ AfterLoop) =>
        /\ nonempty = Ceil(fs[opened].len, size)
        /\ reads = nonempty + 1

\* C8: the run ends (digest printed or failure reported); no read follows
\* the first read that returned no bytes; a loop in which no read failed
\* made ceil(file size / read size) non-empty reads and one empty read.
ReadLoopTerminates ==
    /\ <>Final
    /\ []ReadCounts
    /\ [][reads > nonempty => reads' = reads]_vars

\* C8's case: a file of one chunk and a byte was read to its end, in two
\* non-empty reads and an empty one, and the run has ended.
ReadLoopWitness ==
    /\ pc = "done"
    /\ fs[opened].len = size + 1
    /\ reads = 3

\* The accumulator's calls, state by state.
AccumulatorCalls ==
    /\ updates = (IF pc = "update" THEN nonempty - 1 ELSE nonempty)
    /\ pc = "update" => chunk # <<>>
    /\ finals <= 1
    /\ finals = 1 =>
        /\ reads = nonempty + 1
        /\ openHandles = 0
        /\ updates = nonempty

\* C9: the accumulator is updated once per non-empty chunk read and never
\* with an empty chunk; it is finalized at most once, after the empty read
\* and after the handle was closed; once finalized it is not updated.
AccumulatorDiscipline ==
    /\ []AccumulatorCalls
    /\ [][finals >= 1 => (hash_md5' = hash_md5 /\ updates' = updates
                          /\ finals' = finals)]_vars

\* C9's case: two chunks were fed and the accumulator was finalized.
AccumulatorWitness ==
    /\ finals = 1
    /\ updates = 2
    /\ pc = "done"

\* C10: the one chunk held is the chunk of the latest read, at most
\* READ_SIZE bytes of the file that end at the stream position: each
\* read's chunk takes the place of the one before.
OneBoundedChunk ==
    /\ Len(chunk) <= READ_SIZE
    /\ opened # "none" =>
        /\ Len(chunk) <= pos
        /\ chunk = SubSeq(fdata, pos - Len(chunk) + 1, pos)

\* C10's case: a full chunk was held, and the second read's chunk, the
\* file's last byte, has taken its place.
OneBoundedChunkWitness ==
    /\ pc = "update"
    /\ reads = 2
    /\ pos = READ_SIZE + 1
    /\ Len(chunk) = 1

=============================================================================
